---- MODULE Spec2Model ----
(***************************************************************************)
(* Model of the inline autocomplete controller TextAreaAutoComplete        *)
(* (src/claude_alamode/widgets/autocomplete.py) together with the part of  *)
(* the host TextArea it drives: buffer text, cursor location, the queue of *)
(* Changed notifications and the deferred hide callback.                   *)
(*                                                                         *)
(* Strings are sequences of one-character strings.  Offsets are the        *)
(* 0-based offsets of the Python code; Slice translates them to the        *)
(* 1-based sequences of TLA+.                                              *)
(***************************************************************************)
EXTENDS Integers, Sequences, FiniteSets, TLC

(***************************************************************************)
(* Bounds of the model.                                                    *)
(***************************************************************************)
\* longest buffer the user types (commits may make it longer)
MaxLen == 3
\* longest buffer a commit may produce
MaxBuf == 4
\* most Changed notifications in flight
MaxQueue == 1
\* most deferred hide callbacks in flight
MaxHide == 2
\* most user edits between a commit and the last hide callback it leaves
MaxRace == 1

\* characters the user types
TypedChars == {"/", "@", " ", "\n", "a"}

(***************************************************************************)
(* Python string primitives.                                               *)
(***************************************************************************)
Min(a, b) == IF a < b THEN a ELSE b

Max(a, b) == IF a < b THEN b ELSE a

\* s[i:j] for 0 <= i, 0 <= j
Slice(s, i, j) == SubSeq(s, Min(i, Len(s)) + 1, Min(j, Len(s)))

\* s[i:]
SliceFrom(s, i) == Slice(s, i, Len(s))

\* c in s
Contains(s, c) == \E i \in 1..Len(s) : s[i] = c

\* s.rfind(c): 0-based index of the last c, -1 when there is none
RFind(s, c) ==
    IF Contains(s, c)
    THEN (CHOOSE i \in 1..Len(s) : s[i] = c /\ \A j \in (i+1)..Len(s) : s[j] # c) - 1
    ELSE -1

\* s.startswith(p)
StartsWith(s, p) == Len(s) >= Len(p) /\ SubSeq(s, 1, Len(p)) = p

\* s.endswith(p)
EndsWith(s, p) == Len(s) >= Len(p) /\ SubSeq(s, Len(s) - Len(p) + 1, Len(s)) = p

RECURSIVE LStrip(_, _)
\* s.lstrip(c)
LStrip(s, c) == IF s # <<>> /\ Head(s) = c THEN LStrip(Tail(s), c) ELSE s

RECURSIVE RStrip(_, _)
\* s.rstrip(c)
RStrip(s, c) ==
    IF s # <<>> /\ s[Len(s)] = c THEN RStrip(SubSeq(s, 1, Len(s) - 1), c) ELSE s

\* c.lower() for one character
LowerChar(c) == IF c = "A" THEN "a" ELSE IF c = "B" THEN "b" ELSE c

\* s.lower()
Lower(s) == [i \in 1..Len(s) |-> LowerChar(s[i])]

RECURSIVE Split(_, _)
\* s.split(c): the pieces between the occurrences of c (always at least one)
Split(s, c) ==
    IF ~Contains(s, c) THEN <<s>>
    ELSE LET k == CHOOSE i \in 1..Len(s) : s[i] = c /\ \A j \in 1..(i-1) : s[j] # c
         IN <<SubSeq(s, 1, k - 1)>> \o Split(SubSeq(s, k + 1, Len(s)), c)

RECURSIVE SumLens(_, _)
\* sum(len(lines[i]) + 1 for i in range(n))
SumLens(lines, n) ==
    IF n = 0 THEN 0 ELSE SumLens(lines, n - 1) + Len(lines[n]) + 1


(***************************************************************************)
(* Configuration supplied at construction, and the file system.            *)
(***************************************************************************)
\* the prefix glyphs; each stands for one code point
BOLT == "BOLT"

FOLDER == "FOLDER"

PAGE == "PAGE"

\* self.slash_commands
slash_commands == << <<"/", "a", " ", "a">>, <<"/", "a", "b">>, <<"/", "b">> >>

\* os.DirEntry: the name, what is_dir() returns, and whether is_dir() raises
\* OSError instead (it has to stat the entry and cannot)
DirEntry(name, isdir) == [name |-> name, is_dir |-> isdir, raises |-> FALSE]

\* an entry that is_dir() cannot inspect, such as a symbolic link that loops
UninspectableEntry(name) == [name |-> name, is_dir |-> FALSE, raises |-> TRUE]

\* the directory tree under base_path, keyed by str(directory); scandir order
\* is the order of the sequences.  A key outside the domain cannot be read.
FsInitial ==
    ( <<".">> :> << DirEntry(<<"a">>, FALSE), DirEntry(<<"b">>, TRUE),
                   DirEntry(<<".", "h">>, FALSE), DirEntry(<<"@">>, TRUE) >> )
    @@ ( <<"b">> :> << DirEntry(<<".", "h">>, FALSE), DirEntry(<<"a">>, FALSE) >> )
    @@ ( <<"@">> :> << >> )

\* LRUCache(100)
cache_maxsize == 100

VARIABLES
    text,               \* target.text
    cursor_location,    \* target.cursor_location, <<row, col>>, 0-based
    _mode,              \* self._mode: "slash", "path" or "None"
    _trigger_pos,       \* self._trigger_pos
    _completing,        \* self._completing
    options,            \* the options of self.option_list
    highlighted,        \* option_list.highlighted, -1 for None
    display,            \* self.styles.display: "none" or "block"
    _directory_cache,   \* self._directory_cache, most recently used first
    changed_queue,      \* TextArea.Changed messages posted and not yet delivered
    hide_pending,       \* hide_and_reset callbacks scheduled and not yet run
    fs,                 \* the file system
    race_edits,         \* user edits made while a hide callback is pending
    raised              \* an OSError has left _handle_text_change

vars == << text, cursor_location, _mode, _trigger_pos, _completing, options,
           highlighted, display, _directory_cache, changed_queue, hide_pending,
           fs, race_edits, raised >>

(***************************************************************************)
(* The fuzzy matcher FuzzySearch.match(query, candidate).                   *)
(***************************************************************************)
\* code points, for the order of strings
Ord(c) ==
    CASE c = "\n" -> 10 [] c = "\t" -> 9 [] c = " " -> 32 [] c = "." -> 46
      [] c = "/" -> 47 [] c = "@" -> 64 [] c = "A" -> 65 [] c = "B" -> 66
      [] c = "a" -> 97 [] c = "b" -> 98 [] c = "h" -> 104 [] OTHER -> 9000

RECURSIVE StrLess(_, _)
\* s < t for Python strings
StrLess(s, t) ==
    IF t = <<>> THEN FALSE
    ELSE IF s = <<>> THEN TRUE
    ELSE IF Head(s) # Head(t) THEN Ord(Head(s)) < Ord(Head(t))
    ELSE StrLess(Tail(s), Tail(t))

\* \w
IsWordChar(c) == c \in {"a", "b", "h", "A", "B"}

RECURSIVE Embeddings(_, _, _)
\* the ascending offset sequences (0-based) at which query occurs in candidate
\* as a subsequence, from offset `from` on
Embeddings(query, candidate, from) ==
    IF query = <<>> THEN { <<>> }
    ELSE UNION { { <<i - 1>> \o e : e \in Embeddings(Tail(query), candidate, i + 1) } :
                 i \in { j \in from..Len(candidate) : candidate[j] = Head(query) } }

\* the number of runs of adjacent offsets
Groups(offsets) ==
    1 + Cardinality({ i \in 2..Len(offsets) : offsets[i] # offsets[i-1] + 1 })

\* the score of one embedding, times Len(offsets)^2 to stay in the integers:
\* (matched + matched first letters) * (1 + normalized_groups^2)
EmbeddingScore(candidate, offsets) ==
    LET n == Len(offsets)
        first_letters == { i \in 0..(Len(candidate) - 1) :
                             /\ IsWordChar(candidate[i + 1])
                             /\ (i = 0 \/ ~IsWordChar(candidate[i])) }
        hits == Cardinality({ i \in 1..n : offsets[i] \in first_letters })
        g == Groups(offsets)
    IN (n + hits) * (n * n + (n - g + 1) * (n - g + 1))

RECURSIVE SeqLess(_, _)
\* lexicographic order of offset sequences
SeqLess(s, t) ==
    IF t = <<>> THEN FALSE
    ELSE IF s = <<>> THEN TRUE
    ELSE IF Head(s) # Head(t) THEN Head(s) < Head(t)
    ELSE SeqLess(Tail(s), Tail(t))

\* the best embedding: the highest score, and the first of those in the
\* lexicographic order of the offsets
BestEmbedding(candidate, all) ==
    CHOOSE e \in all :
        \A f \in all :
            \/ EmbeddingScore(candidate, f) < EmbeddingScore(candidate, e)
            \/ /\ EmbeddingScore(candidate, f) = EmbeddingScore(candidate, e)
               /\ (f = e \/ SeqLess(e, f))

\* the result of match for the embeddings found
MatchResult(candidate, all) ==
    IF all = {} THEN [score |-> 0, offsets |-> <<>>]
    ELSE [score |-> EmbeddingScore(candidate, BestEmbedding(candidate, all)),
          offsets |-> BestEmbedding(candidate, all)]

\* match(query, candidate): score 0 and no offsets when the query is not a
\* subsequence of the candidate, else the best score and its offsets
FuzzyMatch(query, candidate) ==
    MatchResult(candidate, Embeddings(Lower(query), Lower(candidate), 1))

(***************************************************************************)
(* The directory cache, an LRUCache, most recently used first.             *)
(***************************************************************************)
CacheHas(cache, key) == \E i \in 1..Len(cache) : cache[i].key = key

CacheIndex(cache, key) == CHOOSE i \in 1..Len(cache) : cache[i].key = key

\* LRUCache.get on a hit: the value
CacheValue(cache, key) == cache[CacheIndex(cache, key)].entries

\* a cache whose get leaves the order of use as it is
CachePromote_KeepsOrder(cache, key) == cache

\* LRUCache.get on a hit: the key becomes the most recently used
CachePromote(cache, key) ==
    LET k == CacheIndex(cache, key)
    IN <<cache[k]>> \o SubSeq(cache, 1, k - 1) \o SubSeq(cache, k + 1, Len(cache))

\* a cache that never evicts
CachePut_Unbounded(cache, key, entries) == <<[key |-> key, entries |-> entries]>> \o cache

\* LRUCache.__setitem__ of a key that is not cached
CachePut(cache, key, entries) ==
    LET grown == <<[key |-> key, entries |-> entries]>> \o cache
    IN IF Len(grown) > cache_maxsize THEN SubSeq(grown, 1, Len(grown) - 1) ELSE grown

(***************************************************************************)
(* The controller.  Its methods are functions of a record S that holds     *)
(* the widget's fields and the host's, so that a method can call another.  *)
(* S.log lists, in order, what each notification did during one handler:   *)
(* "suppressed" (dropped because of the flag) or "detect" (detection ran). *)
(***************************************************************************)
\* DropdownItem(main, prefix=prefix + " "): main is Content, here its plain
\* text and the offsets of the characters that carry the match style
DropdownItem(main, prefix) == [main |-> main, prefix |-> <<prefix, " ">>, styled |-> <<>>]

\* the plain text of option.prompt: Content.assemble(prefix, main)
Prompt(option) == option.prefix \o option.main

\* _get_cursor_position: linear offset of the (row, col) location
LinearPosition(t, loc) == SumLens(Split(t, "\n"), loc[1]) + loc[2]

\* a conversion that takes the offset for the column
LinearToLocation_ColumnIsOffset(t, pos) ==
    << Len(Split(Slice(t, 0, pos), "\n")) - 1, pos >>

\* _apply_completion: (row, col) of a linear offset
LinearToLocation(t, pos) ==
    LET lines == Split(Slice(t, 0, pos), "\n")
    IN << Len(lines) - 1, Len(lines[Len(lines)]) >>

\* _get_target_state
TargetState(S) ==
    [text |-> S.text, cursor_position |-> LinearPosition(S.text, S.cur)]

\* a detector that scans the full text wherever the cursor is
TextToCheck_WholeText(state) == state.text

\* text up to the cursor, or the full text when the cursor is at the start
TextToCheck(state) ==
    IF state.cursor_position > 0
    THEN Slice(state.text, 0, state.cursor_position)
    ELSE state.text

\* a detector that tries the path rule before the slash rule
DetectMode_PathFirst(state) ==
    LET text_to_check == TextToCheck(state)
        at_pos == RFind(text_to_check, "@")
    IN IF Contains(text_to_check, "@")
            /\ (at_pos = 0 \/ text_to_check[at_pos] \in {" ", "\n", "\t"})
       THEN [mode |-> "path", trig |-> at_pos]
       ELSE IF StartsWith(state.text, <<"/">>)
            THEN [mode |-> "slash", trig |-> 0]
            ELSE [mode |-> "None", trig |-> 0]

\* _handle_text_change, "Detect mode": the mode and the trigger position
DetectMode(state) ==
    LET text_to_check == TextToCheck(state)
        at_pos == RFind(text_to_check, "@")
    IN IF StartsWith(state.text, <<"/">>)
       THEN [mode |-> "slash", trig |-> 0]
       ELSE IF Contains(text_to_check, "@")
                 /\ (at_pos = 0 \/ text_to_check[at_pos] \in {" ", "\n", "\t"})
            THEN [mode |-> "path", trig |-> at_pos]
            ELSE [mode |-> "None", trig |-> 0]

\* _get_search_string
GetSearchString(mode, trig, state) ==
    LET text_to_check == TextToCheck(state)
        path_text == SliceFrom(text_to_check, trig + 1)
    IN IF mode = "slash" THEN text_to_check
       ELSE IF mode = "path"
            THEN IF Contains(path_text, "/")
                 THEN SliceFrom(path_text, RFind(path_text, "/") + 1)
                 ELSE path_text
            ELSE <<>>

\* the parts of a path: empty and "." components are dropped
PathParts(p) == SelectSeq(Split(p, "/"), LAMBDA seg : seg # <<>> /\ seg # <<".">>)

RECURSIVE JoinParts(_)
JoinParts(parts) ==
    IF parts = <<>> THEN <<>>
    ELSE IF Len(parts) = 1 THEN parts[1]
    ELSE parts[1] \o <<"/">> \o JoinParts(Tail(parts))

\* the root of a path: "//" for exactly two leading slashes, else "/" or none
PathRoot(p) ==
    IF StartsWith(p, <<"/", "/">>) /\ ~StartsWith(p, <<"/", "/", "/">>) THEN <<"/", "/">>
    ELSE IF StartsWith(p, <<"/">>) THEN <<"/">>
    ELSE <<>>

\* str(self.base_path / dir_path) for base_path = Path(".")
DirectoryKey(dir_path) ==
    IF PathRoot(dir_path) # <<>> THEN PathRoot(dir_path) \o JoinParts(PathParts(dir_path))
    ELSE IF PathParts(dir_path) = <<>> THEN <<".">>
    ELSE JoinParts(PathParts(dir_path))

\* a sort key that compares the labels as they are: (not
\* value.endswith("/"), value)
PathKeyLess_CaseSensitive(x, y) ==
    \/ EndsWith(x.main, <<"/">>) /\ ~EndsWith(y.main, <<"/">>)
    \/ /\ EndsWith(x.main, <<"/">>) = EndsWith(y.main, <<"/">>)
       /\ StrLess(x.main, y.main)

\* the sort key of a path candidate: (not value.endswith("/"), value.lower())
PathKeyLess(x, y) ==
    \/ EndsWith(x.main, <<"/">>) /\ ~EndsWith(y.main, <<"/">>)
    \/ /\ EndsWith(x.main, <<"/">>) = EndsWith(y.main, <<"/">>)
       /\ StrLess(Lower(x.main), Lower(y.main))

\* x inserted into `sorted` before the element at index k
InsertAt(sorted, x, k) ==
    SubSeq(sorted, 1, k - 1) \o <<x>> \o SubSeq(sorted, k, Len(sorted))

\* the least element of a set of indices, or `none` when the set is empty
FirstOf(indices, none) ==
    IF indices = {} THEN none ELSE CHOOSE i \in indices : \A j \in indices : i <= j

RECURSIVE SortPath(_)
\* results.sort(key=...): stable
SortPath(results) ==
    IF results = <<>> THEN <<>>
    ELSE InsertAt(SortPath(SubSeq(results, 1, Len(results) - 1)),
                  results[Len(results)],
                  FirstOf({ i \in 1..(Len(results) - 1) :
                              PathKeyLess(results[Len(results)],
                                          SortPath(SubSeq(results, 1, Len(results) - 1))[i]) },
                          Len(results)))

\* the candidate of a directory entry
PathItem(entry) ==
    IF entry.is_dir
    THEN DropdownItem(entry.name \o <<"/">>, FOLDER)
    ELSE DropdownItem(entry.name, PAGE)

\* the candidates of the entries that are not dotfiles, unsorted
PathItems(shown) == [i \in 1..Len(shown) |-> PathItem(shown[i])]

\* a provider that lists the dotfiles too
PathResults_WithDotfiles(entries) == SortPath(PathItems(entries))

\* _get_path_candidates, from the entries on
PathResults(entries) ==
    SortPath(PathItems(SelectSeq(entries, LAMBDA e : ~StartsWith(e.name, <<".">>))))

\* _get_path_candidates: path_text
PathText(trig, state) ==
    SliceFrom(Slice(state.text, 0, state.cursor_position), trig + 1)

\* _get_path_candidates: dir_path, for a path_text that contains "/"
DirPath(path_text) ==
    IF RFind(path_text, "/") = 0 THEN <<"/">>
    ELSE Slice(path_text, 0, RFind(path_text, "/"))

\* a provider that lists the base path whatever the reference holds
CacheKey_AlwaysBase(path_text) == <<".">>

\* _get_path_candidates: cache_key
CacheKey(path_text) ==
    IF Contains(path_text, "/") THEN DirectoryKey(DirPath(path_text)) ELSE <<".">>

\* a lookup that caches an empty listing for a directory it could not read
PathLookup_CachesFailure(cache, cache_key) ==
    IF CacheHas(cache, cache_key)
    THEN [cache |-> CachePromote(cache, cache_key),
          results |-> PathResults(CacheValue(cache, cache_key))]
    ELSE IF cache_key \in DOMAIN fs
         THEN [cache |-> CachePut(cache, cache_key, fs[cache_key]),
               results |-> PathResults(fs[cache_key])]
         ELSE [cache |-> CachePut(cache, cache_key, <<>>), results |-> <<>>]

\* a lookup that reads the directory again on a hit
PathLookup_ReadsAgain(cache, cache_key) ==
    IF CacheHas(cache, cache_key) /\ cache_key \in DOMAIN fs
    THEN [cache |-> CachePromote([i \in 1..Len(cache) |->
                                    IF cache[i].key = cache_key
                                    THEN [key |-> cache_key, entries |-> fs[cache_key]]
                                    ELSE cache[i]],
                                 cache_key),
          results |-> PathResults(fs[cache_key])]
    ELSE IF CacheHas(cache, cache_key)
    THEN [cache |-> CachePromote(cache, cache_key),
          results |-> PathResults(CacheValue(cache, cache_key))]
    ELSE IF cache_key \in DOMAIN fs
         THEN [cache |-> CachePut(cache, cache_key, fs[cache_key]),
               results |-> PathResults(fs[cache_key])]
         ELSE [cache |-> cache, results |-> <<>>]

\* _get_path_candidates, from the cache lookup on: the candidates and the
\* cache after the call
PathLookup(cache, cache_key) ==
    IF CacheHas(cache, cache_key)
    THEN [cache |-> CachePromote(cache, cache_key),
          results |-> PathResults(CacheValue(cache, cache_key))]
    ELSE IF cache_key \in DOMAIN fs
         THEN [cache |-> CachePut(cache, cache_key, fs[cache_key]),
               results |-> PathResults(fs[cache_key])]
         ELSE [cache |-> cache, results |-> <<>>]

\* _get_path_candidates: the entries the loop goes through, none when
\* os.scandir raises
EntriesOf(cache, cache_key) ==
    IF CacheHas(cache, cache_key) THEN CacheValue(cache, cache_key)
    ELSE IF cache_key \in DOMAIN fs THEN fs[cache_key]
    ELSE <<>>

\* _get_path_candidates: entry.is_dir() raises for an entry that is no dotfile
IsDirRaises(entries) ==
    \E i \in 1..Len(entries) : ~StartsWith(entries[i].name, <<".">>) /\ entries[i].raises

\* _get_path_candidates
GetPathCandidates(S, state) == PathLookup(S.cache, CacheKey(PathText(S.trig, state)))

\* _get_candidates
GetCandidates(S, state) ==
    IF S.mode = "slash"
    THEN [cache |-> S.cache,
          results |-> [i \in 1..Len(slash_commands) |-> DropdownItem(slash_commands[i], BOLT)]]
    ELSE IF S.mode = "path" THEN GetPathCandidates(S, state)
    ELSE [cache |-> S.cache, results |-> <<>>]

RECURSIVE SortScore_TiesReversed(_)
\* a sort by score that puts a candidate before those of equal score
SortScore_TiesReversed(scored) ==
    IF scored = <<>> THEN <<>>
    ELSE InsertAt(SortScore_TiesReversed(SubSeq(scored, 1, Len(scored) - 1)),
                  scored[Len(scored)],
                  FirstOf({ i \in 1..(Len(scored) - 1) :
                              SortScore_TiesReversed(SubSeq(scored, 1, Len(scored) - 1))[i].score
                                  <= scored[Len(scored)].score },
                          Len(scored)))

RECURSIVE SortScore(_)
\* matches_and_scores.sort(key=itemgetter(1), reverse=True): stable
SortScore(scored) ==
    IF scored = <<>> THEN <<>>
    ELSE InsertAt(SortScore(SubSeq(scored, 1, Len(scored) - 1)),
                  scored[Len(scored)],
                  FirstOf({ i \in 1..(Len(scored) - 1) :
                              SortScore(SubSeq(scored, 1, Len(scored) - 1))[i].score
                                  < scored[Len(scored)].score },
                          Len(scored)))

\* str.isspace for one character
IsSpace(c) == c \in {" ", "\n", "\t"}

\* a highlighter that reads the offsets as counted from 1
ApplyHighlights_FromOne(plain, offsets) ==
    SelectSeq([k \in 1..Len(offsets) |-> offsets[k] + 1],
              LAMBDA offset : offset < Len(plain) /\ ~IsSpace(plain[offset + 1]))

\* _apply_highlights: the offsets that get the match style, in the order in
\* which they are styled
ApplyHighlights(plain, offsets) ==
    SelectSeq(offsets, LAMBDA offset : offset < Len(plain) /\ ~IsSpace(plain[offset + 1]))

\* _get_matches: the item built for a candidate that the matcher scored
Highlighted(candidate, offsets) ==
    [candidate EXCEPT !.styled = ApplyHighlights(candidate.main, offsets)]

\* _get_matches: one entry of matches_and_scores, from the matcher's result
ScoredItem(candidate, result) ==
    [item |-> Highlighted(candidate, result.offsets), score |-> result.score]

\* _get_matches: the candidates with their scores, the matched characters
\* of main highlighted
Scored(candidates, query) ==
    [i \in 1..Len(candidates) |->
        ScoredItem(candidates[i], FuzzyMatch(query, RStrip(candidates[i].main, "/")))]

\* _get_matches: the items of the sorted matches
ItemsOf(kept) == [i \in 1..Len(kept) |-> kept[i].item]

\* a filter that keeps the candidates the matcher scores 0
MatchesFor_KeepsUnmatched(candidates, search_string, query) ==
    IF search_string = <<>> \/ query = <<>> THEN candidates
    ELSE ItemsOf(SortScore(SelectSeq(Scored(candidates, query), LAMBDA m : m.score >= 0)))

\* _get_matches, from the query on
MatchesFor(candidates, search_string, query) ==
    IF search_string = <<>> \/ query = <<>> THEN candidates
    ELSE ItemsOf(SortScore(SelectSeq(Scored(candidates, query), LAMBDA m : m.score > 0)))

\* a filter that matches the search string with its leading "/"
GetMatches_KeepsSlashes(mode, candidates, search_string) ==
    MatchesFor(candidates, search_string, search_string)

\* _get_matches
GetMatches(mode, candidates, search_string) ==
    MatchesFor(candidates, search_string,
               IF mode = "slash" THEN LStrip(search_string, "/") ELSE search_string)

\* a rebuild that keeps the highlight where it was, as far as the new list
\* reaches
WithOptions_KeepsHighlight(S, cache, matches) ==
    [S EXCEPT !.cache = cache,
              !.options = matches,
              !.hl = IF matches # <<>> THEN Min(Max(S.hl, 0), Len(matches) - 1) ELSE -1]

\* a rebuild that does not clear the option list first
WithOptions_NoClear(S, cache, matches) ==
    [S EXCEPT !.cache = cache,
              !.options = S.options \o matches,
              !.hl = IF matches # <<>> THEN 0 ELSE S.hl]

\* _rebuild_options, from the matches on
WithOptions(S, cache, matches) ==
    [S EXCEPT !.cache = cache,
              !.options = matches,
              !.hl = IF matches # <<>> THEN 0 ELSE -1]

\* _rebuild_options, from the candidates on
WithCandidates(S, got, search_string) ==
    WithOptions(S, got.cache, GetMatches(S.mode, got.results, search_string))

\* _rebuild_options
RebuildOptions(S, state) ==
    WithCandidates(S, GetCandidates(S, state), GetSearchString(S.mode, S.trig, state))

\* _should_show
ShouldShow(S, search_string) ==
    IF Len(S.options) = 0 THEN FALSE
    ELSE IF Len(S.options) = 1
         THEN IF S.mode = "slash"
              THEN Prompt(S.options[1]) # LStrip(search_string, "/")
              ELSE Prompt(S.options[1]) # search_string
         ELSE TRUE

\* _handle_text_change, after the options were rebuilt: action_show or
\* action_hide
ShowOrHide(S, state) ==
    [S EXCEPT !.display =
        IF Len(S.options) > 0 /\ ShouldShow(S, GetSearchString(S.mode, S.trig, state))
        THEN "block" ELSE "none"]

\* a cycle that leaves the dropdown as it is when no mode is detected
AfterDetect_LeavesOpen(S, state) ==
    IF S.mode # "None"
    THEN ShowOrHide(RebuildOptions(S, state), state)
    ELSE S

\* _rebuild_options when entry.is_dir() raises in _get_path_candidates: the
\* options were cleared and the listing cached, and the OSError leaves
\* _handle_text_change before action_show or action_hide
Raised(S, cache_key) ==
    [S EXCEPT !.cache = PathLookup(S.cache, cache_key).cache,
              !.options = <<>>,
              !.hl = -1,
              !.raised = TRUE]

\* _handle_text_change, after the mode was detected
AfterDetect(S, state) ==
    IF S.mode = "path" /\ IsDirRaises(EntriesOf(S.cache, CacheKey(PathText(S.trig, state))))
    THEN Raised(S, CacheKey(PathText(S.trig, state)))
    ELSE IF S.mode # "None"
    THEN ShowOrHide(RebuildOptions(S, state), state)
    ELSE [S EXCEPT !.display = "none"]

\* a detector that keeps the stored mode when no rule fires
Detected_KeepsMode(S, found) ==
    IF found.mode = "None" THEN [S EXCEPT !.log = Append(@, "detect")]
    ELSE [S EXCEPT !.mode = found.mode, !.trig = found.trig, !.log = Append(@, "detect")]

\* _handle_text_change, "Detect mode": self._mode and self._trigger_pos are set
Detected(S, found) ==
    [S EXCEPT !.mode = found.mode, !.trig = found.trig, !.log = Append(@, "detect")]

\* _handle_text_change, past the check of the flag
Redetect(S, state) == AfterDetect(Detected(S, DetectMode(state)), state)

\* a handler that detects whether or not the flag is set
HandleTextChange_IgnoresFlag(S) == Redetect(S, TargetState(S))

\* _handle_text_change (also _on_selection_change and the Changed branch of
\* _on_target_message, which only call it)
HandleTextChange(S) ==
    IF S.completing THEN [S EXCEPT !.log = Append(@, "suppressed")]
    ELSE Redetect(S, TargetState(S))

(***************************************************************************)
(* The host TextArea, as far as the controller drives it.                  *)
(***************************************************************************)
\* a row clamped to the document
ClampRow(lines, row) == Max(0, Min(row, Len(lines) - 1))

\* the location clamped to the document, as the selection validator does
ClampLocation(t, loc) ==
    << ClampRow(Split(t, "\n"), loc[1]),
       Max(0, Min(loc[2], Len(Split(t, "\n")[ClampRow(Split(t, "\n"), loc[1]) + 1]))) >>

\* target.move_cursor(location): the selection is set and its watcher,
\* _on_selection_change, runs before the call returns
move_cursor(S, loc) == HandleTextChange([S EXCEPT !.cur = ClampLocation(S.text, loc)])

\* the message queue of the host after a Changed message was posted
Posted(S, who) == [S EXCEPT !.queue = Append(@, who)]

\* target.text = value: the document is replaced, the cursor goes to (0, 0)
\* and a Changed message is posted; `who` records who made the write
load_text(S, value, who) == Posted(move_cursor([S EXCEPT !.text = value], <<0, 0>>), who)

(***************************************************************************)
(* Commit.                                                                 *)
(***************************************************************************)
\* a commit that writes the prompt as it is displayed
StripPrefix_KeepsGlyph(value) == value

\* _complete: the prompt without its prefix (glyph and space)
StripPrefix(value) ==
    IF \E g \in {BOLT, FOLDER, PAGE} : StartsWith(value, <<g, " ">>)
    THEN SliceFrom(value, 2)
    ELSE value

\* _complete: value
CompletionValue(option) == StripPrefix(Prompt(option))

\* _apply_completion: cursor_pos
CursorPos(state) ==
    IF state.cursor_position > 0 THEN state.cursor_position ELSE Len(state.text)

\* _apply_completion: path_text
SplicePathText(trig, state) == Slice(state.text, trig + 1, CursorPos(state))

\* a splice that always starts behind the trigger
ReplaceStart_BehindTrigger(trig, state) == trig + 1

\* _apply_completion: replace_start
ReplaceStart(trig, state) ==
    IF Contains(SplicePathText(trig, state), "/")
    THEN trig + 1 + RFind(SplicePathText(trig, state), "/") + 1
    ELSE trig + 1

\* _apply_completion: new_text
NewText(trig, state, value) ==
    Slice(state.text, 0, ReplaceStart(trig, state)) \o value
        \o SliceFrom(state.text, CursorPos(state))

\* _apply_completion: the text is written and the cursor moved
WriteBack(S, new_text, loc) == move_cursor(load_text(S, new_text, "commit"), loc)

\* _apply_completion
ApplyCompletion(S, value, state) ==
    IF S.mode = "slash" THEN WriteBack(S, value, <<0, Len(value)>>)
    ELSE IF S.mode = "path"
         THEN WriteBack(S, NewText(S.trig, state, value),
                        LinearToLocation(NewText(S.trig, state, value),
                                         ReplaceStart(S.trig, state) + Len(value)))
         ELSE S

\* _complete: keep_open
KeepOpen(mode, value) == mode = "path" /\ EndsWith(value, <<"/">>)

\* _complete, after _apply_completion: re-detect at once for a directory,
\* else schedule hide_and_reset
AfterApply(S, keep_open) ==
    IF keep_open
    THEN HandleTextChange([S EXCEPT !.completing = FALSE])
    ELSE [S EXCEPT !.hidep = @ + 1]

\* a commit that sets the flag only after it wrote
CompleteWith_FlagAfterWrite(S, value) ==
    AfterApply([ApplyCompletion(S, value, TargetState(S)) EXCEPT !.completing = TRUE],
               KeepOpen(S.mode, value))

\* _complete, from the value on
CompleteWith(S, value) ==
    AfterApply(ApplyCompletion([S EXCEPT !.completing = TRUE], value, TargetState(S)),
               KeepOpen(S.mode, value))

\* _complete
Complete(S, option_index) ==
    IF S.display # "block" \/ Len(S.options) = 0 THEN S
    ELSE CompleteWith(S, CompletionValue(S.options[option_index + 1]))

\* a callback that hides and leaves the flag set
HideAndResetOf_HideOnly(S) == [S EXCEPT !.display = "none"]

\* a callback that clears the flag and hides nothing
HideAndResetOf_FlagOnly(S) == [S EXCEPT !.completing = FALSE]

\* hide_and_reset, the callback _complete passes to call_after_refresh
HideAndResetOf(S) == [S EXCEPT !.completing = FALSE, !.display = "none"]

\* handle_key: highlighted = option_list.highlighted or 0
HighlightedOr0(S) == IF S.hl = -1 THEN 0 ELSE S.hl

\* a key handler whose navigation runs off the ends of the list
HandleKey_NoModulo(S, key) ==
    IF Len(S.options) = 0 \/ S.display # "block" THEN [S |-> S, consumed |-> FALSE]
    ELSE IF key = "down"
         THEN [S |-> [S EXCEPT !.hl = HighlightedOr0(S) + 1], consumed |-> TRUE]
    ELSE IF key = "up"
         THEN [S |-> [S EXCEPT !.hl = HighlightedOr0(S) - 1], consumed |-> TRUE]
    ELSE IF key \in {"tab", "enter"}
         THEN [S |-> Complete(S, HighlightedOr0(S)), consumed |-> TRUE]
    ELSE IF key = "escape"
         THEN [S |-> [S EXCEPT !.display = "none"], consumed |-> TRUE]
    ELSE [S |-> S, consumed |-> FALSE]

\* a key handler that acts on a hidden dropdown too
HandleKey_IgnoresVisibility(S, key) ==
    IF Len(S.options) = 0 THEN [S |-> S, consumed |-> FALSE]
    ELSE IF key = "down"
         THEN [S |-> [S EXCEPT !.hl = (HighlightedOr0(S) + 1) % Len(S.options)],
               consumed |-> TRUE]
    ELSE IF key = "up"
         THEN [S |-> [S EXCEPT !.hl = (HighlightedOr0(S) - 1) % Len(S.options)],
               consumed |-> TRUE]
    ELSE IF key \in {"tab", "enter"}
         THEN [S |-> Complete(S, HighlightedOr0(S)), consumed |-> TRUE]
    ELSE IF key = "escape"
         THEN [S |-> [S EXCEPT !.display = "none"], consumed |-> TRUE]
    ELSE [S |-> S, consumed |-> FALSE]

\* a key handler in which escape commits as tab and enter do
HandleKey_EscapeCommits(S, key) ==
    IF Len(S.options) = 0 \/ S.display # "block" THEN [S |-> S, consumed |-> FALSE]
    ELSE IF key = "down"
         THEN [S |-> [S EXCEPT !.hl = (HighlightedOr0(S) + 1) % Len(S.options)],
               consumed |-> TRUE]
    ELSE IF key = "up"
         THEN [S |-> [S EXCEPT !.hl = (HighlightedOr0(S) - 1) % Len(S.options)],
               consumed |-> TRUE]
    ELSE IF key \in {"tab", "enter", "escape"}
         THEN [S |-> Complete(S, HighlightedOr0(S)), consumed |-> TRUE]
    ELSE [S |-> S, consumed |-> FALSE]

\* handle_key: the state after the key and whether the key was consumed
HandleKey(S, key) ==
    IF Len(S.options) = 0 \/ S.display # "block" THEN [S |-> S, consumed |-> FALSE]
    ELSE IF key = "down"
         THEN [S |-> [S EXCEPT !.hl = (HighlightedOr0(S) + 1) % Len(S.options)],
               consumed |-> TRUE]
    ELSE IF key = "up"
         THEN [S |-> [S EXCEPT !.hl = (HighlightedOr0(S) - 1) % Len(S.options)],
               consumed |-> TRUE]
    ELSE IF key \in {"tab", "enter"}
         THEN [S |-> Complete(S, HighlightedOr0(S)), consumed |-> TRUE]
    ELSE IF key = "escape"
         THEN [S |-> [S EXCEPT !.display = "none"], consumed |-> TRUE]
    ELSE [S |-> S, consumed |-> FALSE]

(***************************************************************************)
(* The state machine: one action per event the widget or the host handles. *)
(***************************************************************************)
\* the fields as a record, with an empty log
Fields ==
    [text |-> text, cur |-> cursor_location, mode |-> _mode, trig |-> _trigger_pos,
     completing |-> _completing, options |-> options, hl |-> highlighted,
     display |-> display, cache |-> _directory_cache, queue |-> changed_queue,
     hidep |-> hide_pending, raised |-> raised, log |-> <<>>]

\* the fields after a handler returned S
Becomes(S) ==
    /\ text' = S.text
    /\ cursor_location' = S.cur
    /\ _mode' = S.mode
    /\ _trigger_pos' = S.trig
    /\ _completing' = S.completing
    /\ options' = S.options
    /\ highlighted' = S.hl
    /\ display' = S.display
    /\ _directory_cache' = S.cache
    /\ changed_queue' = S.queue
    /\ hide_pending' = S.hidep
    /\ raised' = S.raised
    /\ fs' = fs

\* the state stays within the bounds of the model
WithinBounds(S) ==
    /\ Len(S.text) <= MaxBuf
    /\ Len(S.queue) <= MaxQueue
    /\ S.hidep <= MaxHide

\* a handler returned S, within the bounds
Step(S) == WithinBounds(S) /\ Becomes(S)

\* a user edit is counted while a hide callback is pending
CountEdit ==
    /\ hide_pending > 0 => race_edits < MaxRace
    /\ race_edits' = IF hide_pending > 0 THEN race_edits + 1 ELSE 0

\* TextAreaAutoComplete.__init__ and an empty TextArea
Init ==
    /\ text = <<>>
    /\ cursor_location = <<0, 0>>
    /\ _mode = "None"
    /\ _trigger_pos = 0
    /\ _completing = FALSE
    /\ options = <<>>
    /\ highlighted = -1
    /\ display = "none"
    /\ _directory_cache = <<>>
    /\ changed_queue = <<>>
    /\ hide_pending = 0
    /\ fs = FsInitial
    /\ race_edits = 0
    /\ raised = FALSE

\* the host after an edit that leaves text t and the cursor at offset pos:
\* the selection is set and Changed is posted
Edited(S, t, pos) ==
    Posted(move_cursor([S EXCEPT !.text = t], LinearToLocation(t, pos)), "user")

\* the host after the user typed c at offset pos
Typed(S, c, pos) ==
    Edited(S, Slice(S.text, 0, pos) \o <<c>> \o SliceFrom(S.text, pos), pos + 1)

\* the host after a backspace at offset pos
Backspaced(S, pos) ==
    Edited(S, Slice(S.text, 0, pos - 1) \o SliceFrom(S.text, pos), pos - 1)

\* the user types a character
UserType(c) ==
    /\ Len(text) < MaxLen
    /\ Step(Typed(Fields, c, LinearPosition(text, cursor_location)))
    /\ CountEdit

\* the user deletes the character before the cursor
UserBackspace ==
    /\ LinearPosition(text, cursor_location) > 0
    /\ Step(Backspaced(Fields, LinearPosition(text, cursor_location)))
    /\ CountEdit

\* the user moves the cursor
UserMoveCursor(pos) ==
    /\ pos # LinearPosition(text, cursor_location)
    /\ Step(move_cursor(Fields, LinearToLocation(text, pos)))
    /\ CountEdit

\* the host application clears the input (ChatInput.clear after a submit)
UserClear ==
    /\ text # <<>>
    /\ Step(load_text(Fields, <<>>, "user"))
    /\ CountEdit

\* a Changed message reaches _on_target_message
DeliverChanged ==
    /\ changed_queue # <<>>
    /\ Step(HandleTextChange([Fields EXCEPT !.queue = Tail(@)]))
    /\ race_edits' = race_edits

\* the keys the host passes to handle_key
Keys == {"down", "up", "tab", "enter", "escape", "other"}

\* a key press reaches handle_key
Key(key) ==
    /\ Step(HandleKey(Fields, key).S)
    /\ race_edits' = race_edits

\* a mouse click on option i of the visible dropdown: _on_option_selected
Select(i) ==
    /\ display = "block"
    /\ Step(Complete(Fields, i))
    /\ race_edits' = race_edits

\* the deferred hide_and_reset callback runs
HideAndReset ==
    /\ hide_pending > 0
    /\ Step(HideAndResetOf([Fields EXCEPT !.hidep = @ - 1]))
    /\ race_edits' = IF hide_pending = 1 THEN 0 ELSE race_edits

Next ==
    \/ \E c \in TypedChars : UserType(c)
    \/ UserBackspace
    \/ \E pos \in 0..Len(text) : UserMoveCursor(pos)
    \/ UserClear
    \/ DeliverChanged
    \/ \E key \in Keys : Key(key)
    \/ \E i \in 0..(Len(options) - 1) : Select(i)
    \/ HideAndReset

Spec == Init /\ [][Next]_vars

\* call_after_refresh runs the deferred callback after the next refresh
LiveSpec == Init /\ [][Next]_vars /\ WF_vars(HideAndReset)

(***************************************************************************)
(* The candidate pipeline on its own: a controller attached to a buffer    *)
(* that already holds text, over any directory listing, runs one detection *)
(* cycle (_get_candidates, _get_matches, _rebuild_options).                *)
(***************************************************************************)
\* most entries in the directory under base_path
MaxEntries == 3

\* the names of the entries under base_path
EntryNames == { <<"a">>, <<"B">>, <<"a", "b">>, <<".", "h">> }

\* the characters of the buffer
ListingChars == {"@", "/", "a", "b"}

\* what os.scandir(base_path) may return: entries with distinct names, in any
\* order
Listings ==
    { s \in UNION { [1..n -> { DirEntry(name, d) : name \in EntryNames, d \in BOOLEAN }] :
                    n \in 0..MaxEntries } :
        \A i \in 1..Len(s) : \A j \in 1..Len(s) : i # j => s[i].name # s[j].name }

\* the listing of every directory under base_path
SubListing == << DirEntry(<<"b">>, FALSE), DirEntry(<<"a">>, TRUE) >>

\* the listing of the root of the file system
RootListing == << DirEntry(<<"b">>, TRUE) >>

\* the file system in which base_path lists `entries`
ListingFs(entries) ==
    ( <<".">> :> entries ) @@ ( <<"/">> :> RootListing )
    @@ [ key \in { <<"/">> \o RootListing[1].name }
                 \cup { entries[i].name : i \in { j \in 1..Len(entries) : entries[j].is_dir } }
         |-> SubListing ]

\* TextAreaAutoComplete.__init__ over a TextArea that holds any text
ListingInit ==
    /\ text \in UNION { [1..n -> ListingChars] : n \in 0..MaxBuf }
    /\ cursor_location \in { LinearToLocation(text, pos) : pos \in 0..Len(text) }
    /\ _mode = "None"
    /\ _trigger_pos = 0
    /\ _completing = FALSE
    /\ options = <<>>
    /\ highlighted = -1
    /\ display = "none"
    /\ _directory_cache = <<>>
    /\ changed_queue = <<>>
    /\ hide_pending = 0
    /\ fs \in { ListingFs(entries) : entries \in Listings }
    /\ race_edits = 0
    /\ raised = FALSE

\* the selection watcher fires: _on_selection_change
SelectionChanged ==
    /\ Step(HandleTextChange(Fields))
    /\ race_edits' = race_edits

ListingNext == SelectionChanged

ListingSpec == ListingInit /\ [][ListingNext]_vars

(***************************************************************************)
(* The same cycle over a file system that fails: the base path may be      *)
(* missing, and a listed entry may be one that is_dir() cannot inspect.    *)
(***************************************************************************)
\* most entries in the directory under base_path
MaxFailEntries == 2

\* what os.scandir(base_path) may return, entries that cannot be inspected
\* among them
FailureListings ==
    { s \in UNION { [1..n -> { DirEntry(name, d) : name \in EntryNames, d \in BOOLEAN }
                             \cup { UninspectableEntry(name) : name \in EntryNames }] :
                    n \in 0..MaxFailEntries } :
        \A i \in 1..Len(s) : \A j \in 1..Len(s) : i # j => s[i].name # s[j].name }

\* a file system in which base_path does not exist
FsWithoutBase == ( <<"/">> :> RootListing )

\* TextAreaAutoComplete.__init__ over a TextArea that holds any text
FailureInit ==
    /\ text \in UNION { [1..n -> ListingChars] : n \in 0..MaxLen }
    /\ cursor_location \in { LinearToLocation(text, pos) : pos \in 0..Len(text) }
    /\ _mode = "None"
    /\ _trigger_pos = 0
    /\ _completing = FALSE
    /\ options = <<>>
    /\ highlighted = -1
    /\ display = "none"
    /\ _directory_cache = <<>>
    /\ changed_queue = <<>>
    /\ hide_pending = 0
    /\ fs \in { ListingFs(entries) : entries \in FailureListings } \cup { FsWithoutBase }
    /\ race_edits = 0
    /\ raised = FALSE

FailureNext == SelectionChanged

FailureSpec == FailureInit /\ [][FailureNext]_vars

(***************************************************************************)
(* The directory cache at its capacity: the controller has listed many     *)
(* directories before, and the user goes on typing references.             *)
(***************************************************************************)
\* most keys of the directories under test at the least recently used end of
\* the initial cache
MaxStale == 2

\* the file system: base_path with the directory "a", and the root
CacheFs == ListingFs(<< DirEntry(<<"a">>, TRUE) >>)

\* the directories the typed references reach
TypedKeys == { <<".">>, <<"a">>, <<"/">> }

\* the cache entry of a directory listed earlier
Listed(key) == [key |-> key, entries |-> CacheFs[key]]

\* n other directories listed earlier, named "h", "hh", ...: the most recently
\* used first
OtherListed(n) == [i \in 1..n |-> [key |-> [j \in 1..i |-> "h"], entries |-> <<>>]]

\* the caches the controller may hold: full or one short of it, the
\* directories under test least recently used
InitialCaches ==
    { OtherListed(n) \o [i \in 1..Len(run) |-> Listed(run[i])] :
        run \in { r \in UNION { [1..m -> TypedKeys] : m \in 0..MaxStale } :
                    \A i \in 1..Len(r) : \A j \in 1..Len(r) : i # j => r[i] # r[j] },
        n \in (cache_maxsize - MaxStale - 1)..cache_maxsize }

\* a controller that has listed many directories, over an empty TextArea
CacheInit ==
    /\ text = <<>>
    /\ cursor_location = <<0, 0>>
    /\ _mode = "None"
    /\ _trigger_pos = 0
    /\ _completing = FALSE
    /\ options = <<>>
    /\ highlighted = -1
    /\ display = "none"
    /\ _directory_cache \in { c \in InitialCaches : Len(c) \in (cache_maxsize - 1)..cache_maxsize }
    /\ changed_queue = <<>>
    /\ hide_pending = 0
    /\ fs = CacheFs
    /\ race_edits = 0
    /\ raised = FALSE

CacheNext ==
    \/ \E c \in ListingChars : UserType(c)
    \/ UserBackspace
    \/ DeliverChanged

CacheSpec == CacheInit /\ [][CacheNext]_vars

(***************************************************************************)
(* The directory cache over a file system that changes: files and          *)
(* directories come and go between the cycles, and os.scandir returns what *)
(* the directory holds when it is called.                                  *)
(***************************************************************************)
\* the file whose presence changes
TouchedFile == DirEntry(<<"b">>, FALSE)

\* the directory that is removed and made again
MovedDirectory == DirEntry(<<"a">>, TRUE)

\* a listing without the entries of that name
WithoutName(entries, name) == SelectSeq(entries, LAMBDA e : e.name # name)

\* a listing holds an entry of that name
HasName(entries, name) == \E i \in 1..Len(entries) : entries[i].name = name

\* the fields of the controller, which a change of the file system leaves
\* alone
controller ==
    << text, cursor_location, _mode, _trigger_pos, _completing, options,
       highlighted, display, _directory_cache, changed_queue, hide_pending,
       race_edits, raised >>

\* the file "b" is created in the directory d, or removed from it
TouchFile(d) ==
    /\ d \in DOMAIN fs
    /\ fs' = [fs EXCEPT ![d] = IF HasName(@, TouchedFile.name)
                               THEN WithoutName(@, TouchedFile.name)
                               ELSE Append(@, TouchedFile)]
    /\ UNCHANGED controller

\* the directory "a" under base_path is removed with all it holds
RemoveDirectory ==
    /\ MovedDirectory.name \in DOMAIN fs
    /\ fs' = [key \in DOMAIN fs \ {MovedDirectory.name} |->
                IF key = <<".">> THEN WithoutName(fs[key], MovedDirectory.name) ELSE fs[key]]
    /\ UNCHANGED controller

\* the directory "a" is made under base_path, empty
MakeDirectory ==
    /\ MovedDirectory.name \notin DOMAIN fs
    /\ fs' = [key \in DOMAIN fs \cup {MovedDirectory.name} |->
                IF key = MovedDirectory.name THEN <<>>
                ELSE IF key = <<".">> THEN Append(fs[key], MovedDirectory)
                ELSE fs[key]]
    /\ UNCHANGED controller

\* the caches the controller may hold: the directory "a" listed longest
\* ago, in a cache that is full or one short of it
StaleCaches ==
    { OtherListed(n) \o << Listed(MovedDirectory.name) >> :
        n \in (cache_maxsize - 2)..(cache_maxsize - 1) }

\* a controller that has listed many directories, over an empty TextArea
StaleInit ==
    /\ text = <<>>
    /\ cursor_location = <<0, 0>>
    /\ _mode = "None"
    /\ _trigger_pos = 0
    /\ _completing = FALSE
    /\ options = <<>>
    /\ highlighted = -1
    /\ display = "none"
    /\ _directory_cache \in StaleCaches
    /\ changed_queue = <<>>
    /\ hide_pending = 0
    /\ fs = CacheFs
    /\ race_edits = 0
    /\ raised = FALSE

\* the characters typed: a reference to base_path, to "a" or to the root
StaleChars == {"@", "/", "a"}

StaleNext ==
    \/ \E c \in StaleChars : UserType(c)
    \/ UserBackspace
    \/ DeliverChanged
    \/ \E d \in {<<".">>, MovedDirectory.name} : TouchFile(d)
    \/ RemoveDirectory
    \/ MakeDirectory

StaleSpec == StaleInit /\ [][StaleNext]_vars

(***************************************************************************)
(* The controller over a directory tree in which the directory "b" holds   *)
(* an entry that is_dir() cannot inspect.                                  *)
(***************************************************************************)
BrokenFs == [FsInitial EXCEPT ![<<"b">>] = << UninspectableEntry(<<"a">>) >>]

\* TextAreaAutoComplete.__init__ and an empty TextArea
BrokenInit ==
    /\ text = <<>>
    /\ cursor_location = <<0, 0>>
    /\ _mode = "None"
    /\ _trigger_pos = 0
    /\ _completing = FALSE
    /\ options = <<>>
    /\ highlighted = -1
    /\ display = "none"
    /\ _directory_cache = <<>>
    /\ changed_queue = <<>>
    /\ hide_pending = 0
    /\ fs = BrokenFs
    /\ race_edits = 0
    /\ raised = FALSE

BrokenSpec == BrokenInit /\ [][Next]_vars

\* the types of the fields
TypeOK ==
    /\ _mode \in {"None", "slash", "path"}
    /\ _trigger_pos \in 0..MaxBuf
    /\ _completing \in BOOLEAN
    /\ display \in {"none", "block"}
    /\ highlighted \in -1..(Len(options) - 1)
    /\ hide_pending \in 0..MaxHide
    /\ Len(text) <= MaxBuf
    /\ cursor_location = ClampLocation(text, cursor_location)
    /\ raised \in BOOLEAN

(***************************************************************************)
(* Steps, told apart by what the host records of them.                     *)
(***************************************************************************)
\* a user edit: it posts Changed, or it only moves the cursor
UserEditStep ==
    \/ changed_queue' = Append(changed_queue, "user")
    \/ changed_queue' = changed_queue /\ cursor_location' # cursor_location

\* a Changed message is delivered
ChangedStep == changed_queue # <<>> /\ changed_queue' = Tail(changed_queue)

\* a commit wrote the buffer
CommitStep == changed_queue' = Append(changed_queue, "commit")

\* a commit that scheduled no hide callback: the candidate was a directory
ContainerCommitStep == CommitStep /\ hide_pending' = hide_pending

\* a step that ends with a detection cycle that the flag did not suppress
DetectionStep ==
    \/ ~_completing /\ (UserEditStep \/ ChangedStep)
    \/ ContainerCommitStep

\* the cursor offset of the state
cursorOffset == LinearPosition(text, cursor_location)

\* no commit is in progress and every notification has been delivered
Settled == ~_completing /\ hide_pending = 0 /\ changed_queue = <<>>

C2_WritesUnderFlag ==
    [][ CommitStep
        => \A i \in 0..(Len(options) - 1) :
          Becomes(Complete(Fields, i))
          => /\ Len(Complete(Fields, i).log) >= 2
             /\ Complete(Fields, i).log[1] = "suppressed"
             /\ Complete(Fields, i).log[2] = "suppressed"
             /\ IF ContainerCommitStep
                THEN Complete(Fields, i).log = <<"suppressed", "suppressed", "detect">>
                     /\ ~_completing'
                ELSE Complete(Fields, i).log = <<"suppressed", "suppressed">>
                     /\ _completing'
                     /\ hide_pending' = hide_pending + 1 ]_vars

\* a commit of a file or a command wrote the buffer: its notification is
\* still to be delivered and its hide callback still to run
C2_Witness ==
    /\ _completing
    /\ hide_pending = 1
    /\ changed_queue = <<"commit">>
    /\ text # <<>>

(***************************************************************************)
(* C3.  After an unsuppressed detection on a text that starts with "/",    *)
(* the mode is the slash mode and the trigger offset is 0, wherever the    *)
(* cursor is and whether or not the text contains "@".                     *)
(***************************************************************************)
C3_SlashOnly ==
    [][ (DetectionStep /\ text' # <<>> /\ text'[1] = "/")
        => (_mode' = "slash" /\ _trigger_pos' = 0) ]_vars

\* detection has run on "/", newline, "@" with the cursor behind the "@",
\* which on its own would trigger the path mode
C3_Witness ==
    /\ Settled
    /\ text = <<"/", "\n", "@">>
    /\ cursor_location = <<1, 1>>
    /\ _mode = "slash"

\* the text the path rule scans: text before the cursor, the whole text when
\* the cursor offset is 0 or less
Scanned(t, offset) == IF offset <= 0 THEN t ELSE SubSeq(t, 1, Min(offset, Len(t)))

\* position i (from 1) of s holds the last "@" of s, at a word boundary
IsTrigger(s, i) ==
    /\ s[i] = "@"
    /\ \A j \in (i + 1)..Len(s) : s[j] # "@"
    /\ (i = 1 \/ s[i - 1] \in {" ", "\t", "\n"})

StoredResults ==
    {<<"None", 0>>, <<"slash", 0>>} \cup { <<"path", t>> : t \in 0..MaxBuf }

\* the fields with the flag clear and <<mode, trigger>> stored by an earlier cycle
WithStored(stored) ==
    [Fields EXCEPT !.completing = FALSE, !.mode = stored[1], !.trig = stored[2]]

\* what a detection cycle stores
StoredBy(S) == <<S.mode, S.trig>>

(***************************************************************************)
(* C5.  Detection is a function of the snapshot (text, cursor) alone: on   *)
(* the snapshot of any reachable state it stores the same mode and trigger *)
(* whatever mode and trigger an earlier cycle left, and running it a       *)
(* second time on the unchanged snapshot stores the same again.            *)
(***************************************************************************)
C5_DetectionOfSnapshot ==
    LET once == HandleTextChange(WithStored(<<"None", 0>>))
    IN /\ \A stored \in StoredResults :
             StoredBy(HandleTextChange(WithStored(stored))) = StoredBy(once)
       /\ StoredBy(HandleTextChange(once)) = StoredBy(once)

\* detection has run on "a" after the path mode was stored for "@": the
\* stored mode was replaced by None
C5_Witness ==
    /\ Settled
    /\ text = <<"a">>
    /\ _mode = "None"
    /\ options # <<>>

(***************************************************************************)
(* C6.  A commit in the slash mode replaces the whole buffer with exactly  *)
(* the label of the chosen candidate, without its glyph, and puts the      *)
(* cursor at the end of the label.                                         *)
(***************************************************************************)
C6_SlashCommit ==
    [][ (CommitStep /\ _mode = "slash")
        => \A i \in 0..(Len(options) - 1) :
             Becomes(Complete(Fields, i))
             => /\ text' = options[i + 1].main
                /\ cursor_location' = <<0, Len(options[i + 1].main)>> ]_vars

\* the command "/ab" was committed: it is the buffer, the cursor is at its end
C6_Witness ==
    /\ _mode = "slash"
    /\ _completing
    /\ changed_queue = <<"commit">>
    /\ text = <<"/", "a", "b">>
    /\ cursor_location = <<0, 3>>

\* pathText of the splice, for a cursor offset
SplicePath(offset) == Slice(text, _trigger_pos + 1, offset)

\* replaceStart of the splice: behind the last "/" of pathText, else behind
\* the trigger
SpliceStart(offset) ==
    IF Contains(SplicePath(offset), "/")
    THEN _trigger_pos + 1 + RFind(SplicePath(offset), "/") + 1
    ELSE _trigger_pos + 1

\* the buffer after the splice of label
Spliced(offset, label) ==
    Slice(text, 0, SpliceStart(offset)) \o label \o SliceFrom(text, offset)

(***************************************************************************)
(* C7, as stated.  A commit in the path mode splices at the cursor offset: *)
(* the new buffer is text[0:replaceStart] + label + text[cursorOffset:]    *)
(* and the new cursor offset is replaceStart + length(label).              *)
(***************************************************************************)
C7_SpliceAtCursor ==
    [][ (CommitStep /\ _mode = "path")
        => \A i \in 0..(Len(options) - 1) :
             Becomes(Complete(Fields, i))
             => /\ text' = Spliced(cursorOffset, options[i + 1].main)
                /\ cursorOffset' = SpliceStart(cursorOffset) + Len(options[i + 1].main) ]_vars

\* the offset the splice takes for the cursor: the end of the text when the
\* cursor offset is 0
SpliceOffset == IF cursorOffset > 0 THEN cursorOffset ELSE Len(text)

(***************************************************************************)
(* C7, amended.  A commit in the path mode splices at the cursor offset,   *)
(* or at the end of the text when the cursor offset is 0: with that offset *)
(* c, the new buffer is text[0:replaceStart] + label + text[c:], so that   *)
(* what the text holds before replaceStart and from c on is kept, and the  *)
(* new cursor offset is replaceStart + length(label), or the end of the    *)
(* new buffer when the buffer is shorter than that.                        *)
(***************************************************************************)
C7_SpliceAtOffset ==
    [][ (CommitStep /\ _mode = "path")
        => \A i \in 0..(Len(options) - 1) :
             Becomes(Complete(Fields, i))
             => /\ text' = Spliced(SpliceOffset, options[i + 1].main)
                /\ cursorOffset' = Min(SpliceStart(SpliceOffset) + Len(options[i + 1].main),
                                       Len(text')) ]_vars

\* the file "a" was committed between the trigger and a space that followed
\* the cursor
C7_Witness ==
    /\ _mode = "path"
    /\ _completing
    /\ hide_pending = 1
    /\ changed_queue = <<"commit">>
    /\ text = <<"@", "a", " ">>
    /\ cursor_location = <<0, 2>>

(***************************************************************************)
(* C8.  After a commit of a candidate that is no directory, the dropdown   *)
(* eventually is hidden; the hide callback that hides it leaves the        *)
(* spliced buffer and the cursor as they are.                              *)
(***************************************************************************)
C8_HiddenAfterCommit ==
    /\ (hide_pending > 0) ~> (display = "none")
    /\ [][ hide_pending' < hide_pending
           => /\ display' = "none"
              /\ text' = text
              /\ cursor_location' = cursor_location ]_vars

\* the command "/b" was committed and the hide callback has run
C8_Witness ==
    /\ Settled
    /\ display = "none"
    /\ _mode = "slash"
    /\ text = <<"/", "b">>
    /\ cursor_location = <<0, 2>>

\* the key of the directory whose name lies between the trigger and the
\* cursor, without the "/" that ends it
DescendedKey(t, trig, offset) == DirectoryKey(Slice(t, trig + 1, offset - 1))

(***************************************************************************)
(* C9.  After a commit of a directory in the path mode, the detection that *)
(* runs at once yields the path mode with the same trigger offset, the     *)
(* candidates are the entries of the directory just descended into, and    *)
(* the dropdown is open if that directory has an entry that is not hidden. *)
(***************************************************************************)
C9_ContainerKeepsOpen ==
    [][ (ContainerCommitStep /\ _mode = "path")
        => /\ _mode' = "path"
           /\ _trigger_pos' = _trigger_pos
           /\ DescendedKey(text', _trigger_pos, cursorOffset') \in DOMAIN fs
              => /\ options' = PathResults(fs[DescendedKey(text', _trigger_pos, cursorOffset')])
                 /\ options' # <<>> => display' = "block" ]_vars

(***************************************************************************)
(* C10.  The escape key, pressed while the dropdown is open, hides the     *)
(* dropdown and leaves the text and the cursor unchanged.                  *)
(***************************************************************************)
C10_EscapeHides ==
    [][ (display = "block" /\ options # <<>> /\ Key("escape"))
        => /\ display' = "none"
           /\ text' = text
           /\ cursor_location' = cursor_location ]_vars

\* the dropdown is hidden on "/", where detection shows it: escape hid it
C10_Witness ==
    /\ Settled
    /\ display = "none"
    /\ _mode = "slash"
    /\ text = <<"/">>
    /\ cursor_location = <<0, 1>>
    /\ Len(options) = Len(slash_commands)

\* the index handle_key starts from: the highlight, 0 when nothing is
\* highlighted
navIndex == IF highlighted = -1 THEN 0 ELSE highlighted

\* navigation leaves the buffer, the option list and the visibility alone
NavFrame ==
    /\ text' = text
    /\ cursor_location' = cursor_location
    /\ options' = options
    /\ display' = display

(***************************************************************************)
(* C11.  With n candidates displayed, "down" moves the highlight from i to *)
(* i+1, and from the last candidate to the first; "up" moves it from i to  *)
(* i-1, and from the first candidate to the last.  Neither changes the     *)
(* buffer, the option list or the visibility.                              *)
(***************************************************************************)
C11_NavigationWraps ==
    [][ /\ (display = "block" /\ options # <<>> /\ Key("down"))
           => /\ highlighted' = IF navIndex = Len(options) - 1 THEN 0 ELSE navIndex + 1
              /\ NavFrame
        /\ (display = "block" /\ options # <<>> /\ Key("up"))
           => /\ highlighted' = IF navIndex = 0 THEN Len(options) - 1 ELSE navIndex - 1
              /\ NavFrame ]_vars

\* the last of three commands is highlighted: navigation moved the highlight
\* off the top, where detection puts it
C11_Witness ==
    /\ Settled
    /\ display = "block"
    /\ _mode = "slash"
    /\ Len(options) = 3
    /\ highlighted = 2

\* the search string of the state a step leads to
searchAfter ==
    GetSearchString(_mode', _trigger_pos', [text |-> text', cursor_position |-> cursorOffset'])

(***************************************************************************)
(* C12.  After an unsuppressed detection with a mode other than None, the  *)
(* dropdown is shown if more than one candidate remains, or if exactly one *)
(* remains and its label differs from the search text; when exactly one    *)
(* remains and its label is what the user has already typed, the dropdown  *)
(* is hidden.  (The label is compared with the trigger character on both   *)
(* sides or on neither.)                                                   *)
(***************************************************************************)
C12_HiddenWhenTyped ==
    [][ (DetectionStep /\ _mode' # "None")
        => /\ Len(options') > 1 => display' = "block"
           /\ (Len(options') = 1 /\ options'[1].main # searchAfter) => display' = "block"
           /\ (Len(options') = 1 /\ options'[1].main = searchAfter) => display' = "none" ]_vars

(***************************************************************************)
(* C13.  The dropdown is hidden in the initial state, and it is hidden     *)
(* after every unsuppressed detection (on a buffer change or a cursor      *)
(* move) that yields the mode None or leaves no candidate after filtering. *)
(***************************************************************************)
C13_HiddenWithoutCandidates ==
    /\ display = "none"
    /\ [][ (DetectionStep /\ (_mode' = "None" \/ options' = <<>>))
           => display' = "none" ]_vars

\* the slash mode was detected, no command matches the query "@", and the
\* dropdown is hidden
C13_Witness ==
    /\ Settled
    /\ text = <<"/", "@">>
    /\ _mode = "slash"
    /\ options = <<>>
    /\ display = "none"

(***************************************************************************)
(* C14, as stated.  Whenever an unsuppressed detection leaves at least one *)
(* candidate in the option list, the first candidate is highlighted at the *)
(* end of the cycle, wherever the highlight was before.                    *)
(***************************************************************************)
C14_TopHighlighted ==
    [][ (DetectionStep /\ options' # <<>>) => highlighted' = 0 ]_vars

(***************************************************************************)
(* C14, amended.  An unsuppressed detection that finds a mode rebuilds the *)
(* option list, and if that leaves at least one candidate the first one is *)
(* highlighted at the end of the cycle, wherever the highlight was before. *)
(* A detection that finds no mode hides the list without rebuilding it:    *)
(* the options and the highlight stay as they were.                        *)
(***************************************************************************)
C14_TopHighlightedOnRebuild ==
    [][ DetectionStep
        => /\ (_mode' # "None" /\ options' # <<>>) => highlighted' = 0
           /\ _mode' = "None" => /\ options' = options
                                 /\ highlighted' = highlighted
                                 /\ display' = "none" ]_vars

\* a detection has narrowed the three commands to the two that match "a" and
\* highlighted the first
C14_Witness ==
    /\ Settled
    /\ text = <<"/", "a">>
    /\ cursor_location = <<0, 2>>
    /\ _mode = "slash"
    /\ Len(options) = 2
    /\ highlighted = 0

\* the search string and the query of the state
searchNow == GetSearchString(_mode, _trigger_pos, TargetState(Fields))

queryNow == IF _mode = "slash" THEN LStrip(searchNow, "/") ELSE searchNow

\* what the provider returns in the state
providerNow == GetCandidates(Fields, TargetState(Fields)).results

\* the matcher's score of a candidate for the query of the state
scoreNow(item) == FuzzyMatch(queryNow, RStrip(item.main, "/")).score

\* the place of a candidate in the provider's sequence, 0 when it is not there
placeNow(item) ==
    FirstOf({ k \in 1..Len(providerNow) :
                providerNow[k].main = item.main /\ providerNow[k].prefix = item.prefix }, 0)

(***************************************************************************)
(* C15.  For a non-empty query the option list is ordered by matcher score *)
(* descending, and candidates with equal scores keep the relative order in *)
(* which the provider produced them.                                       *)
(***************************************************************************)
C15_ScoreOrderStable ==
    (_mode # "None" /\ queryNow # <<>>)
    => \A i \in 1..Len(options) : \A j \in 1..Len(options) :
         i < j => \/ scoreNow(options[i]) > scoreNow(options[j])
                  \/ /\ scoreNow(options[i]) = scoreNow(options[j])
                     /\ 0 < placeNow(options[i])
                     /\ placeNow(options[i]) < placeNow(options[j])

\* for the query "b" the file "B" is ranked before the file "ab", which the
\* provider lists first
C15_Witness ==
    /\ text = <<"@", "b">>
    /\ cursor_location = <<0, 2>>
    /\ _mode = "path"
    /\ Len(options) = 2
    /\ options[1].main = <<"B">>
    /\ options[2].main = <<"a", "b">>
    /\ placeNow(options[2]) < placeNow(options[1])

RECURSIVE IsSubsequence(_, _)
\* the characters of q occur in s in order, not necessarily adjacent
IsSubsequence(q, s) ==
    IF q = <<>> THEN TRUE
    ELSE IF s = <<>> THEN FALSE
    ELSE IF Head(q) = Head(s) THEN IsSubsequence(Tail(q), Tail(s))
    ELSE IsSubsequence(q, Tail(s))

listedEntries == fs[_directory_cache[1].key]

\* the label the provider gives an entry
labelOf(entry) == IF entry.is_dir THEN entry.name \o <<"/">> ELSE entry.name

(***************************************************************************)
(* C17.  The path provider returns exactly one candidate for each entry of *)
(* the directory whose name does not start with ".", and no candidate      *)
(* whose label starts with ".".  The candidate of a directory is labelled  *)
(* with the name and a trailing "/" and marked as a container; the         *)
(* candidate of a file is labelled with the bare name and is no container. *)
(***************************************************************************)
C17_OnePerVisibleEntry ==
    (_mode = "path" /\ _directory_cache # <<>>)
    => /\ \A e \in 1..Len(listedEntries) :
            IF listedEntries[e].name[1] = "."
            THEN \A k \in 1..Len(providerNow) :
                   RStrip(providerNow[k].main, "/") # listedEntries[e].name
            ELSE /\ Cardinality({ k \in 1..Len(providerNow) :
                                    providerNow[k].main = labelOf(listedEntries[e]) }) = 1
                 /\ \A k \in 1..Len(providerNow) :
                      providerNow[k].main = labelOf(listedEntries[e])
                      => /\ EndsWith(providerNow[k].main, <<"/">>) = listedEntries[e].is_dir
                         /\ providerNow[k].prefix[1] =
                              IF listedEntries[e].is_dir THEN FOLDER ELSE PAGE
       /\ Len(providerNow)
            = Cardinality({ e \in 1..Len(listedEntries) : listedEntries[e].name[1] # "." })
       /\ \A k \in 1..Len(providerNow) : providerNow[k].main[1] # "."

\* a hidden directory, a file and a directory were listed: the provider
\* returns the directory with its "/" and the file, and drops the hidden one
C17_Witness ==
    /\ text = <<"@">>
    /\ cursor_location = <<0, 1>>
    /\ _mode = "path"
    /\ _directory_cache # <<>>
    /\ listedEntries = << DirEntry(<<".", "h">>, TRUE), DirEntry(<<"a">>, FALSE),
                          DirEntry(<<"B">>, TRUE) >>
    /\ Len(providerNow) = 2
    /\ providerNow[1].main = <<"B", "/">>
    /\ providerNow[2].main = <<"a">>

\* the label of a candidate is a container's
isContainer(item) == EndsWith(item.main, <<"/">>)

(***************************************************************************)
(* C18.  The sequence the path provider returns lists every container      *)
(* before every candidate that is no container, and within each of the two *)
(* groups the labels are in lexicographic order without regard to letter   *)
(* case; with an empty query the option list is exactly this sequence.     *)
(***************************************************************************)
C18_ContainersFirst ==
    (_mode = "path" /\ _directory_cache # <<>>)
    => /\ \A i \in 1..Len(providerNow) : \A j \in 1..Len(providerNow) :
            i < j => /\ isContainer(providerNow[j]) => isContainer(providerNow[i])
                     /\ isContainer(providerNow[i]) = isContainer(providerNow[j])
                        => ~StrLess(Lower(providerNow[j].main), Lower(providerNow[i].main))
       /\ queryNow = <<>> => options = providerNow

\* the files "a" and "B" and the directory "ab" were listed: the directory
\* comes first, and "a" before "B" although "B" has the lower code point
C18_Witness ==
    /\ text = <<"@">>
    /\ cursor_location = <<0, 1>>
    /\ _mode = "path"
    /\ Len(options) = 3
    /\ options[1].main = <<"a", "b", "/">>
    /\ options[2].main = <<"a">>
    /\ options[3].main = <<"B">>
    /\ listedEntries[1].name = <<"B">>

\* the reference in progress: text[triggerOffset+1 : cursorOffset]
referenceNow == SubSeq(text, _trigger_pos + 2, cursorOffset)

\* the part of the reference before its last "/"
beforeLastSlash ==
    SubSeq(referenceNow, 1,
           FirstOf({ i \in 1..Len(referenceNow) :
                       /\ referenceNow[i] = "/"
                       /\ \A j \in (i + 1)..Len(referenceNow) : referenceNow[j] # "/" }, 1) - 1)

\* the directory that the cycle listed
listedKey == _directory_cache[1].key

(***************************************************************************)
(* C19, as stated.  In the path mode with the cursor behind the trigger,   *)
(* the directory listed is the base path when the reference in progress    *)
(* holds no "/", and otherwise the base path joined with the part of the   *)
(* reference before its last "/".                                          *)
(***************************************************************************)
C19_ListsJoinedDirectory ==
    (_mode = "path" /\ cursorOffset > _trigger_pos /\ _directory_cache # <<>>)
    => listedKey = IF Contains(referenceNow, "/")
                   THEN DirectoryKey(beforeLastSlash)
                   ELSE <<".">>

(***************************************************************************)
(* C19, amended.  In the path mode with the cursor behind the trigger, the *)
(* directory listed is the base path when the reference in progress holds  *)
(* no "/"; the root "/" of the file system when nothing stands before the  *)
(* last "/" of the reference; and otherwise the base path joined with the  *)
(* part of the reference before its last "/".                              *)
(***************************************************************************)
C19_ListsJoinedOrRoot ==
    (_mode = "path" /\ cursorOffset > _trigger_pos /\ _directory_cache # <<>>)
    => listedKey = IF ~Contains(referenceNow, "/") THEN <<".">>
                   ELSE IF beforeLastSlash = <<>> THEN <<"/">>
                   ELSE DirectoryKey(beforeLastSlash)

\* the reference "a/" was typed: the directory "a" under the base path was
\* listed, not the base path
C19_Witness ==
    /\ text = <<"@", "a", "/">>
    /\ cursor_location = <<0, 3>>
    /\ _mode = "path"
    /\ _directory_cache # <<>>
    /\ listedKey = <<"a">>
    /\ options # <<>>
    /\ fs[<<".">>] # fs[<<"a">>]

\* the directory a cycle in the path mode lists
directoryNow ==
    IF cursorOffset <= _trigger_pos \/ ~Contains(referenceNow, "/") THEN <<".">>
    ELSE IF beforeLastSlash = <<>> THEN <<"/">>
    ELSE DirectoryKey(beforeLastSlash)

\* the file system fails the cycle: the directory cannot be read, or one of
\* its entries that is no dotfile cannot be inspected
failsNow ==
    \/ directoryNow \notin DOMAIN fs
    \/ /\ directoryNow \in DOMAIN fs
       /\ \E i \in 1..Len(fs[directoryNow]) :
            fs[directoryNow][i].name[1] # "." /\ fs[directoryNow][i].raises

(***************************************************************************)
(* C20.  A failure of the file system during candidate resolution (the     *)
(* directory is missing or unreadable, a listed entry cannot be inspected) *)
(* leaves an empty or reduced candidate sequence and a hidden dropdown;    *)
(* no exception leaves the detection cycle.                                *)
(***************************************************************************)
C20_FailuresAreSilent ==
    /\ ~raised
    /\ (_mode = "path" /\ failsNow)
       => /\ display = "none"
          /\ \A i \in 1..Len(options) : placeNow(options[i]) > 0

\* the keys of a cache, the most recently used first
keysOf(cache) == [i \in 1..Len(cache) |-> cache[i].key]

\* a sequence without its element at index k
without(s, k) == SubSeq(s, 1, k - 1) \o SubSeq(s, k + 1, Len(s))

(***************************************************************************)
(* C21.  The cache evicts in the order of least recent use.  A cycle that  *)
(* lists a directory makes its key the most recently used.  If the key was *)
(* cached, nothing is evicted.  If it is new and the cache is full exactly *)
(* one key is evicted, the least recently used one, so a key that the      *)
(* previous cycle read stays; if the cache is not full nothing is evicted. *)
(* A cycle that lists no directory leaves the cache as it is.              *)
(***************************************************************************)
C21_EvictsLeastRecentlyUsed ==
    [][ DetectionStep
        => LET old == keysOf(_directory_cache)
               new == keysOf(_directory_cache')
               listed == directoryNow'
               hits == { i \in 1..Len(old) : old[i] = listed }
           IN IF _mode' = "path" /\ (hits # {} \/ listed \in DOMAIN fs)
              THEN /\ new # <<>>
                   /\ new[1] = listed
                   /\ IF hits # {}
                      THEN \E i \in hits : new = <<listed>> \o without(old, i)
                      ELSE IF Len(old) = cache_maxsize
                           THEN new = <<listed>> \o SubSeq(old, 1, Len(old) - 1)
                           ELSE new = <<listed>> \o old
              ELSE _directory_cache' = _directory_cache ]_vars

\* the cache was full with "." and "a" least recently used; "." was read
\* again, then the root was listed: "a" was evicted, "." was not
C21_Witness ==
    /\ Len(_directory_cache) = cache_maxsize
    /\ _directory_cache[1].key = <<"/">>
    /\ _directory_cache[2].key = <<".">>
    /\ _directory_cache[cache_maxsize].key = [j \in 1..(cache_maxsize - 2) |-> "h"]
    /\ \A i \in 1..cache_maxsize : _directory_cache[i].key # <<"a">>
    /\ text = <<"@", "/">>

(***************************************************************************)
(* C22.  In every reachable state the directory cache holds at most its    *)
(* capacity of 100 entries, each under a key of its own.                   *)
(***************************************************************************)
C22_CacheBounded ==
    /\ Len(_directory_cache) <= cache_maxsize
    /\ \A i \in 1..Len(_directory_cache) : \A j \in 1..Len(_directory_cache) :
         i # j => _directory_cache[i].key # _directory_cache[j].key

\* the base path and the directory "a" were inserted into the full cache,
\* which is still full: the two directories listed longest ago are gone
C22_Witness ==
    /\ Len(_directory_cache) = cache_maxsize
    /\ _directory_cache[1].key = <<"a">>
    /\ _directory_cache[2].key = <<".">>
    /\ _directory_cache[cache_maxsize].key = [j \in 1..(cache_maxsize - 2) |-> "h"]
    /\ text = <<"@", "a", "/">>

\* the candidates of the configured commands, in the configured order
commandCandidates ==
    [i \in 1..Len(slash_commands) |-> [main |-> slash_commands[i], prefix |-> <<BOLT, " ">>, styled |-> <<>>]]

(***************************************************************************)
(* C23.  After an unsuppressed detection that finds the slash mode, the    *)
(* provider yields exactly one candidate for each configured command, in   *)
(* the configured order, and when the query is empty once the leading "/"  *)
(* are removed, the option list is exactly that sequence.  No candidate of *)
(* the slash mode is a container: a commit in the slash mode never keeps   *)
(* the dropdown open for a descent.                                        *)
(***************************************************************************)
C23_CommandsInOrder ==
    [][ /\ (DetectionStep /\ _mode' = "slash")
           => /\ providerNow' = commandCandidates
              /\ queryNow' = <<>> => options' = commandCandidates
        /\ (CommitStep /\ _mode = "slash") => ~ContainerCommitStep ]_vars

\* "//" was typed: the query is empty and all commands are listed in the
\* configured order
C23_Witness ==
    /\ Settled
    /\ text = <<"/", "/">>
    /\ cursor_location = <<0, 2>>
    /\ _mode = "slash"
    /\ display = "block"
    /\ options = commandCandidates

\* the keys handle_key acts on
actingKeys == {"down", "up", "tab", "enter", "escape"}

(***************************************************************************)
(* C24.  In every reachable state and for every key, handle_key reports    *)
(* the key as consumed exactly when the dropdown is visible, has options   *)
(* and the key is one of down, up, tab, enter and escape; when it reports  *)
(* the key as not consumed it has changed nothing: highlight, options,     *)
(* visibility, mode, buffer and every other field are as before.           *)
(***************************************************************************)
C24_IgnoredKeysChangeNothing ==
    \A key \in Keys :
        /\ HandleKey(Fields, key).consumed
             <=> (display = "block" /\ options # <<>> /\ key \in actingKeys)
        /\ ~HandleKey(Fields, key).consumed => HandleKey(Fields, key).S = Fields

\* escape has hidden the dropdown over "/": the three options are still in
\* the list, and tab is not consumed
C24_Witness ==
    /\ Settled
    /\ text = <<"/">>
    /\ _mode = "slash"
    /\ display = "none"
    /\ Len(options) = 3
    /\ ~HandleKey(Fields, "tab").consumed
    /\ HandleKey(Fields, "tab").S = Fields

(***************************************************************************)
(* C25.  No commit is performed while the suppression flag is set: a tab,  *)
(* an enter or a mouse selection that arrives after a commit of a file or  *)
(* a command, before the deferred hide callback has run, does not write    *)
(* the buffer a second time.                                               *)
(***************************************************************************)
C25_NoCommitUnderFlag ==
    [][ _completing => ~CommitStep ]_vars

(***************************************************************************)
(* C26.  At every commit in the path mode the stored trigger offset        *)
(* indexes an "@" of the text read at the commit, and triggerOffset <      *)
(* replaceStart <= c <= length(text), where c is the offset the commit     *)
(* takes for the cursor (the end of the text when the cursor offset is 0); *)
(* the cursor the commit sets is not beyond the end of the new text.  This *)
(* holds for every sequence of events, edits made while the suppression    *)
(* flag was set included.                                                  *)
(***************************************************************************)
C26_TriggerValidAtCommit ==
    [][ (CommitStep /\ _mode = "path")
        => /\ _trigger_pos < Len(text)
           /\ text[_trigger_pos + 1] = "@"
           /\ _trigger_pos < SpliceStart(SpliceOffset)
           /\ SpliceStart(SpliceOffset) <= SpliceOffset
           /\ SpliceOffset <= Len(text)
           /\ cursorOffset' <= Len(text') ]_vars

(***************************************************************************)
(* C27.  While the suppression flag is set, a notification of a buffer     *)
(* change or of a cursor move leaves the stored mode, the trigger offset,  *)
(* the option list, the highlighted index, the visibility and the          *)
(* directory cache as they are.                                            *)
(***************************************************************************)
C27_SuppressedChangesNothing ==
    [][ (_completing /\ (UserEditStep \/ ChangedStep))
        => UNCHANGED << _mode, _trigger_pos, options, highlighted, display,
                        _directory_cache >> ]_vars

\* a command was committed and the input cleared before the hide callback:
\* the mode, the options and the visibility are still those of the commit
C27_Witness ==
    /\ _completing
    /\ race_edits = 1
    /\ changed_queue = <<>>
    /\ text = <<>>
    /\ _mode = "slash"
    /\ display = "block"
    /\ Len(options) = 3

(***************************************************************************)
(* C28.  After every commit the suppression flag returns to false: at once *)
(* for the commit of a directory, and for any other commit when the        *)
(* deferred callback runs, which is pending as long as the flag is set.    *)
(* The flag never stays set forever.                                       *)
(***************************************************************************)
C28_FlagReturnsToFalse ==
    /\ _completing ~> ~_completing
    /\ [](_completing => hide_pending > 0)
    /\ [][ /\ ContainerCommitStep => ~_completing'
           /\ hide_pending' < hide_pending => ~_completing' ]_vars

\* the file "a" was committed and the hide callback has run: the flag is
\* clear again and no callback is pending
C28_Witness ==
    /\ Settled
    /\ race_edits = 0
    /\ text = <<"@", "a">>
    /\ cursor_location = <<0, 2>>
    /\ _mode = "path"
    /\ display = "none"
    /\ options # <<>>

\* the reference in progress as the detector scans it: the text behind the
\* trigger up to the cursor, or up to the end of the text when the cursor
\* offset is <= 0
scannedReference == SliceFrom(Scanned(text, cursorOffset), _trigger_pos + 1)

\* the directory named by the scanned reference: the base path, the root
\* when nothing stands before the last "/", or the base path joined with
\* the part before the last "/"
scannedDirectory ==
    IF ~Contains(scannedReference, "/") THEN <<".">>
    ELSE IF RFind(scannedReference, "/") = 0 THEN <<"/">>
    ELSE DirectoryKey(Slice(scannedReference, 0, RFind(scannedReference, "/")))

\* the query named by the scanned reference: the part behind its last "/"
scannedQuery ==
    IF Contains(scannedReference, "/")
    THEN SliceFrom(scannedReference, RFind(scannedReference, "/") + 1)
    ELSE scannedReference

(***************************************************************************)
(* C29.  In every cycle of the path mode the directory listed and the      *)
(* query that filters the listing come from the same reference in progress *)
(* (the text behind the trigger up to the cursor, or up to the end of the  *)
(* text when the cursor offset is <= 0): the directory is the one named by *)
(* the part of that reference before its last "/", the query is the part   *)
(* behind it.                                                              *)
(***************************************************************************)
C29_DirectoryAndQueryAgree ==
    _mode = "path"
    => /\ searchNow = scannedQuery
       /\ _directory_cache # <<>> => listedKey = scannedDirectory
       /\ _directory_cache = <<>> => scannedDirectory \notin DOMAIN fs

\* the characters of s that are no white space, in lower case
inkOf(s) == Lower(SelectSeq(s, LAMBDA c : ~IsSpace(c)))

\* the offsets are strictly ascending
ascending(offsets) ==
    \A k \in 1..Len(offsets) : \A l \in 1..Len(offsets) : k < l => offsets[k] < offsets[l]

\* what the matcher returns for the label of an option, the label taken
\* without its trailing "/"
matchedLabel(main, query) ==
    [label |-> RStrip(main, "/"), result |-> FuzzyMatch(query, RStrip(main, "/"))]

\* the offsets m.result.offsets matched in m.label and the offsets styled are
\* valid for the query
validHighlight(main, styled, query, m) ==
    /\ m.result.score > 0
    /\ Len(m.result.offsets) = Len(query)
    /\ ascending(m.result.offsets)
    /\ \A k \in 1..Len(query) :
         /\ m.result.offsets[k] \in 0..(Len(m.label) - 1)
         /\ LowerChar(m.label[m.result.offsets[k] + 1]) = LowerChar(query[k])
    /\ ascending(styled)
    /\ \A k \in 1..Len(styled) :
         /\ styled[k] \in 0..(Len(m.label) - 1)
         /\ \E l \in 1..Len(m.result.offsets) : m.result.offsets[l] = styled[k]
         /\ ~IsSpace(main[styled[k] + 1])
    /\ [k \in 1..Len(styled) |-> LowerChar(m.label[styled[k] + 1])] = inkOf(query)

C31_CachedListingServed ==
    [][ /\ (DetectionStep /\ _mode' = "path" /\ CacheHas(_directory_cache, directoryNow'))
           => /\ CacheValue(_directory_cache', directoryNow')
                    = CacheValue(_directory_cache, directoryNow')
              /\ options' = GetMatches("path",
                                       PathResults(CacheValue(_directory_cache, directoryNow')),
                                       searchNow')
        /\ \A key \in TypedKeys :
             (CacheHas(_directory_cache, key) /\ CacheHas(_directory_cache', key))
             => CacheValue(_directory_cache', key) = CacheValue(_directory_cache, key)
        /\ (/\ DetectionStep /\ _mode' = "path"
            /\ ~CacheHas(_directory_cache, directoryNow')
            /\ directoryNow' \in DOMAIN fs)
           => CacheValue(_directory_cache', directoryNow') = fs[directoryNow'] ]_vars

\* the directory "a" was removed, then base_path was read (it lists nothing)
\* and after it "a" was listed: from the cache, with the two entries it held
\* when it was read
C31_Witness ==
    /\ text = <<"@", "a", "/">>
    /\ _mode = "path"
    /\ MovedDirectory.name \notin DOMAIN fs
    /\ _directory_cache[1] = Listed(MovedDirectory.name)
    /\ _directory_cache[2] = [key |-> <<".">>, entries |-> <<>>]
    /\ Len(options) = 2
    /\ display = "block"

(***************************************************************************)
(* C32.  A cycle of the path mode whose directory is not in the cache and  *)
(* cannot be read leaves the cache as it is and the option list empty, so  *)
(* that a later cycle for that directory reads it again: whenever the      *)
(* directory is not in the cache and can be read, its listing is put into  *)
(* the cache, an empty listing too.  A cached empty listing is served as a *)
(* hit: the options are empty and the listing stays empty, whatever the    *)
(* directory holds by then.                                                *)
(***************************************************************************)
C32_FailedReadNotCached ==
    [][ (DetectionStep /\ _mode' = "path")
        => /\ (~CacheHas(_directory_cache, directoryNow') /\ directoryNow' \notin DOMAIN fs)
              => /\ _directory_cache' = _directory_cache
                 /\ options' = <<>>
           /\ (~CacheHas(_directory_cache, directoryNow') /\ directoryNow' \in DOMAIN fs)
              => /\ _directory_cache'[1] = [key |-> directoryNow', entries |-> fs[directoryNow']]
                 /\ Len(_directory_cache') = Min(Len(_directory_cache) + 1, cache_maxsize)
           /\ (/\ CacheHas(_directory_cache, directoryNow')
               /\ CacheValue(_directory_cache, directoryNow') = <<>>)
              => /\ _directory_cache'[1] = [key |-> directoryNow', entries |-> <<>>]
                 /\ Len(_directory_cache') = Len(_directory_cache)
                 /\ options' = <<>> ]_vars

\* the directory "a" was evicted and removed (a cycle could not read it),
\* made again and read while it was empty; a file was created in it since,
\* and the cache still answers with the empty listing
C32_Witness ==
    /\ text = <<"@", "a", "/">>
    /\ _mode = "path"
    /\ Len(_directory_cache) = cache_maxsize
    /\ _directory_cache[1] = [key |-> MovedDirectory.name, entries |-> <<>>]
    /\ _directory_cache[2].key = <<".">>
    /\ HasName(_directory_cache[2].entries, MovedDirectory.name)
    /\ fs[MovedDirectory.name] = << TouchedFile >>
    /\ options = <<>>
    /\ display = "none"

\* the candidates of the provider for the text and the cursor of S, filtered
\* and ranked by the query of S
rebuiltFor(S) ==
    GetMatches(S.mode, GetCandidates(S, TargetState(S)).results,
               GetSearchString(S.mode, S.trig, TargetState(S)))

(***************************************************************************)
(* C33.  After every detection cycle that the flag did not suppress and    *)
(* that finds a mode, the option list is exactly the candidates of the     *)
(* provider for the text and the cursor of that cycle, filtered and ranked *)
(* by its query: no option of an earlier cycle remains.                    *)
(***************************************************************************)
C33_OptionsRebuilt ==
    [][ (DetectionStep /\ _mode' # "None") => options' = rebuiltFor(Fields') ]_vars

\* "/" listed the three commands; "b" was typed and two are left, the
\* command "/b" ranked first
C33_Witness ==
    /\ Settled
    /\ text = <<"/", "b">>
    /\ cursor_location = <<0, 2>>
    /\ _mode = "slash"
    /\ display = "block"
    /\ Len(options) = 2
    /\ options[1].main = <<"/", "b">>
    /\ options[2].main = <<"/", "a", "b">>
    /\ options[1].styled = <<1>>

\* the state after the option at the index was committed while the dropdown
\* was shown, whatever the flag
committed(S, option_index) == Complete([S EXCEPT !.display = "block"], option_index)

\* the second commit wrote the text and the cursor that the first had written
sameSplice(once, twice) ==
    /\ twice.text = once.text
    /\ twice.cur = once.cur
    /\ Len(twice.queue) = Len(once.queue) + 1
    /\ twice.hidep = once.hidep + 1

(***************************************************************************)
(* C34.  The splice is idempotent for a candidate that is no directory, in *)
(* the slash mode and in the path mode: wherever the dropdown is shown,    *)
(* committing one of its options twice in succession (the second commit    *)
(* writes again; no edit and no cursor move in between) leaves the text    *)
(* and the cursor that the first commit left.                              *)
(***************************************************************************)
C34_SpliceIdempotent ==
    display = "block"
    => \A i \in 0..(Len(options) - 1) :
         ~KeepOpen(_mode, CompletionValue(options[i + 1]))
         => sameSplice(Complete(Fields, i), committed(Complete(Fields, i), i))

(***************************************************************************)
(* C35.  In every reachable state in which the dropdown is visible, the    *)
(* option list is not empty, the stored mode is the slash mode or the path *)
(* mode, and the highlighted index lies in [0, option count).              *)
(***************************************************************************)
C35_VisibleIsUsable ==
    display = "block"
    => /\ options # <<>>
       /\ _mode \in {"slash", "path"}
       /\ highlighted \in 0..(Len(options) - 1)

(***************************************************************************)
(* C36.  The two conversions of the cursor are inverse to each other on    *)
(* the text of every reachable state: an offset p with 0 <= p <= Len(text) *)
(* converted to (row, col) as _apply_completion does, and back as          *)
(* _get_cursor_position does, gives p; the row is the number of newlines   *)
(* before p; and the location of the cursor, converted to an offset and    *)
(* back, gives the location of the cursor.                                 *)
(***************************************************************************)
C36_ConversionsInverse ==
    /\ \A p \in 0..Len(text) :
         /\ LinearPosition(text, LinearToLocation(text, p)) = p
         /\ LinearToLocation(text, p)[1]
                = Cardinality({ i \in 1..p : text[i] = "\n" })
         /\ LinearToLocation(text, p)[2] \in 0..p
    /\ LinearToLocation(text, cursorOffset) = cursor_location

\* the file "a" was committed on the second line of the buffer: the cursor
\* was moved to the offset 3, which is row 1, column 2
C36_Witness ==
    /\ text = <<"\n", "@", "a">>
    /\ cursor_location = <<1, 2>>
    /\ cursorOffset = 3
    /\ _mode = "path"
    /\ _completing
    /\ changed_queue = <<"commit">>
    /\ hide_pending = 1

(***************************************************************************)
(* C37.  Once the dropdown is hidden (by a cycle, by escape or by the      *)
(* callback of a commit) and no commit is in progress, the stored mode is  *)
(* None and the stored trigger position is 0.                              *)
(***************************************************************************)
C37_HiddenIsInactive ==
    (display = "none" /\ ~_completing) => (_mode = "None" /\ _trigger_pos = 0)

====
